---- MODULE Spec2Model ----
(***************************************************************************)
(* Model of validador_expresiones.py (lexer, Parser, validate_expression,  *)
(* evaluate_expression, probar_lista_expresiones and the two history       *)
(* lists) and of the three button handlers of app.py.                      *)
(*                                                                         *)
(* A text is a sequence of one-character strings.  A message is a sequence *)
(* of string pieces whose concatenation is the Python message; <<>> is     *)
(* None.  A call either returns or raises; both are kept in `res`.         *)
(***************************************************************************)
EXTENDS Integers, Sequences, FiniteSets, TLC

VARIABLES
    input,                \* the text given to the single-item entry points
    call,                 \* the last operation invoked and its argument
    res,                  \* what that operation returned or raised
    parser,               \* the Parser instance under observation
    VALID_EXPRESSIONS,    \* history list of valid texts
    INVALID_EXPRESSIONS   \* history list of <<text, message>> pairs

vars == <<input, call, res, parser, VALID_EXPRESSIONS, INVALID_EXPRESSIONS>>

----------------------------------------------------------------------------
(* Bounds *)

MaxLen == 3        \* every text of at most this many characters is an input
MaxBatch == 2      \* longest list handed to probar_lista_expresiones
MaxHist == 3       \* cap on the total length of the two history lists
MaxWrap == 2       \* most pairs of parentheses a text is wrapped in

----------------------------------------------------------------------------
(* Characters *)

Digits == {"0", "1", "2", "3", "4", "5", "6", "7", "8", "9"}
Operators == {"+", "-", "*", "/"}
Parens == {"(", ")"}
Space == " "

allowed_chars == Digits \cup Operators \cup Parens \cup {Space}

\* The characters texts are enumerated over: three digits, the operators,
\* the parentheses, the space and one character outside allowed_chars.
Alphabet == {"0", "1", "2", "+", "-", "*", "/", "(", ")", " ", "a"}

isspace(ch) == ch = Space
isdigit(ch) == ch \in Digits

DigitValue(ch) ==
    CASE ch = "0" -> 0 [] ch = "1" -> 1 [] ch = "2" -> 2 [] ch = "3" -> 3
      [] ch = "4" -> 4 [] ch = "5" -> 5 [] ch = "6" -> 6 [] ch = "7" -> 7
      [] ch = "8" -> 8 [] ch = "9" -> 9

----------------------------------------------------------------------------
(* Outcomes of a call *)

None == <<>>

\* raise ParserError(message): the only exception the facade catches.
ParserError(message) == [ok |-> FALSE, exc |-> "ParserError", message |-> message]
\* Any other Python exception; it passes through every except clause here.
Exception(type) == [ok |-> FALSE, exc |-> type, message |-> None]

\* A returned tuple of `arity` components, or an exception leaving the call.
Returned2(valid, message) ==
    [kind |-> "return", arity |-> 2, valid |-> valid, message |-> message,
     value |-> None, exc |-> "-"]
Returned3(valid, message, value) ==
    [kind |-> "return", arity |-> 3, valid |-> valid, message |-> message,
     value |-> value, exc |-> "-"]
Raised(type) ==
    [kind |-> "raise", arity |-> 0, valid |-> FALSE, message |-> None,
     value |-> None, exc |-> type]
NoResult ==
    [kind |-> "none", arity |-> 0, valid |-> FALSE, message |-> None,
     value |-> None, exc |-> "-"]

MsgVacia == <<"Expresión vacía">>
MsgSimbolo(ch) == <<"Símbolo no permitido: '", ch, "'">>
MsgCierreSinApertura == <<"Paréntesis de cierre sin apertura previa">>
MsgFaltaCierre == <<"Paréntesis no balanceados: falta cierre">>
MsgIniciaOperador == <<"La expresión no puede iniciar con un operador">>
MsgTerminaOperador == <<"La expresión no puede terminar con un operador">>
MsgTokensExtra == <<"Tokens extra después de una expresión válida">>
MsgDivisionCero == <<"División entre 0 no permitida">>
MsgNumeroOParen == <<"Se esperaba número o '('">>

----------------------------------------------------------------------------
(* str.strip() *)

RECURSIVE lstrip(_)
lstrip(s) ==
    IF s # <<>> /\ isspace(Head(s)) THEN lstrip(Tail(s)) ELSE s

RECURSIVE rstrip(_)
rstrip(s) ==
    IF s # <<>> /\ isspace(s[Len(s)]) THEN rstrip(SubSeq(s, 1, Len(s) - 1)) ELSE s

strip(s) == rstrip(lstrip(s))

----------------------------------------------------------------------------
(* tokenize *)

Token(type_, value) == [type |-> type_, value |-> value]

type_map(ch) ==
    CASE ch = "+" -> "PLUS" [] ch = "-" -> "MINUS" [] ch = "*" -> "MUL"
      [] ch = "/" -> "DIV" [] ch = "(" -> "LPAREN" [] ch = ")" -> "RPAREN"

\* for ch in expr: if ch not in allowed_chars: raise -- the leftmost one.
RECURSIVE FirstDisallowed(_)
FirstDisallowed(s) ==
    IF s = <<>> THEN None
    ELSE IF Head(s) \notin allowed_chars THEN <<Head(s)>>
    ELSE FirstDisallowed(Tail(s))

\* j = i; while j < len(expr) and expr[j].isdigit(): j += 1   (1-based here)
RECURSIVE DigitRunEnd(_, _)
DigitRunEnd(s, j) ==
    IF j <= Len(s) /\ isdigit(s[j]) THEN DigitRunEnd(s, j + 1) ELSE j

\* The while loop of tokenize from index i with the tokens built so far.
RECURSIVE ScanTokens(_, _, _)
ScanTokens(s, i, tokens) ==
    IF i > Len(s) THEN [ok |-> TRUE, tokens |-> tokens, message |-> None]
    ELSE LET ch == s[i] IN
         IF isspace(ch) THEN ScanTokens(s, i + 1, tokens)
         ELSE IF isdigit(ch) THEN
             LET j == DigitRunEnd(s, i) IN
             ScanTokens(s, j, Append(tokens, Token("NUMBER", SubSeq(s, i, j - 1))))
         ELSE IF ch \in Operators \cup Parens THEN
             ScanTokens(s, i + 1, Append(tokens, Token(type_map(ch), <<ch>>)))
         ELSE [ok |-> FALSE, tokens |-> <<>>, message |-> MsgSimbolo(ch)]

\* The balance loop: stops as soon as the counter goes negative, else runs to
\* the end and yields the final counter.
RECURSIVE BalanceScan(_, _, _)
BalanceScan(tokens, k, balance) ==
    IF k > Len(tokens) THEN [negative |-> FALSE, balance |-> balance]
    ELSE IF tokens[k].type = "LPAREN" THEN BalanceScan(tokens, k + 1, balance + 1)
    ELSE IF tokens[k].type = "RPAREN" THEN
        IF balance - 1 < 0 THEN [negative |-> TRUE, balance |-> balance - 1]
        ELSE BalanceScan(tokens, k + 1, balance - 1)
    ELSE BalanceScan(tokens, k + 1, balance)

\* tokenize either returns the token list or raises ParserError(message).
Tokens(tokens) == [ok |-> TRUE, exc |-> "-", message |-> None, tokens |-> tokens]
LexError(message) ==
    [ok |-> FALSE, exc |-> "ParserError", message |-> message, tokens |-> <<>>]

\* tokenize with the balance check made ahead of the character check.
tokenize_balance_first(text) ==
    LET s == strip(text)
        bad == FirstDisallowed(s)
        kept == SelectSeq(s, LAMBDA c : c \in allowed_chars)
        scan == ScanTokens(kept, 1, <<>>)
        bal == BalanceScan(scan.tokens, 1, 0)
    IN  IF bal.negative THEN LexError(MsgCierreSinApertura)
        ELSE IF bal.balance # 0 THEN LexError(MsgFaltaCierre)
        ELSE IF bad # None THEN LexError(MsgSimbolo(bad[1]))
        ELSE Tokens(scan.tokens)

tokenize(text) ==
    LET s == strip(text)
        bad == FirstDisallowed(s)
    IN  IF bad # None THEN LexError(MsgSimbolo(bad[1]))
        ELSE
        LET scan == ScanTokens(s, 1, <<>>) IN
        IF ~scan.ok THEN LexError(scan.message)
        ELSE
        LET bal == BalanceScan(scan.tokens, 1, 0) IN
        IF bal.negative THEN LexError(MsgCierreSinApertura)
        ELSE IF bal.balance # 0 THEN LexError(MsgFaltaCierre)
        ELSE Tokens(scan.tokens)

----------------------------------------------------------------------------
(* Numeric values.  The code computes in Python floats; the model keeps    *)
(* the exact quotient num/den in lowest terms with den > 0, which agrees   *)
(* with the float result on every text short enough to be enumerated here  *)
(* as far as the comparison with zero and the integer results go.          *)

Abs(n) == IF n < 0 THEN -n ELSE n

RECURSIVE Gcd(_, _)
Gcd(a, b) == IF b = 0 THEN a ELSE Gcd(b, a % b)

Number(n, d) ==
    LET g == Gcd(Abs(n), Abs(d))
        sgn == IF d < 0 THEN -1 ELSE 1
    IN  [num |-> sgn * (n \div g), den |-> sgn * (d \div g)]

Zero == [num |-> 0, den |-> 1]
Add(a, b) == Number(a.num * b.den + b.num * a.den, a.den * b.den)
Sub(a, b) == Number(a.num * b.den - b.num * a.den, a.den * b.den)
Mul(a, b) == Number(a.num * b.num, a.den * b.den)
Div(a, b) == Number(a.num * b.den, a.den * b.num)

\* float(tok.value): the base-10 value of a run of digits.
RECURSIVE IntOfDigits(_, _)
IntOfDigits(digits, acc) ==
    IF digits = <<>> THEN acc
    ELSE IntOfDigits(Tail(digits), 10 * acc + DigitValue(Head(digits)))

float(digits) == Number(IntOfDigits(digits, 0), 1)

----------------------------------------------------------------------------
(* class Parser *)

BinaryOperators == {"PLUS", "MINUS", "MUL", "DIV"}

\* The attributes the class statement binds.  expr, term and factor are
\* defined with def inside the body of parse, after its last statement, so
\* they are locals of parse and never attributes of a Parser.
ParserMethods == {"__init__", "current", "eat", "parse"}

\* Parser.__init__
Parser(tokens) == [tokens |-> tokens, pos |-> 0]

\* Parser.current: the token at pos (0-based), or None.
current(p) == IF p.pos < Len(p.tokens) THEN <<p.tokens[p.pos + 1]>> ELSE None

InTuple(x, tuple) == \E i \in 1..Len(tuple) : tuple[i] = x

\* " o ".join(token_types)
RECURSIVE Join(_)
Join(token_types) ==
    IF Len(token_types) <= 1 THEN token_types
    ELSE <<Head(token_types), " o ">> \o Join(Tail(token_types))

\* An outcome inside the parser: the parser after the step, ok or the
\* exception raised, and the value computed.
Ok(p, value) ==
    [ok |-> TRUE, exc |-> "-", message |-> None, parser |-> p, value |-> value]
Fail(p, error) ==
    [ok |-> FALSE, exc |-> error.exc, message |-> error.message, parser |-> p,
     value |-> Zero]

\* eat that advances the cursor whatever the current token is.
eat_unchecked(p, token_types) ==
    LET tok == current(p) IN
    IF tok # None
    THEN Ok([p EXCEPT !.pos = p.pos + 1], Zero)
    ELSE Fail([p EXCEPT !.pos = p.pos + 1],
              ParserError(<<"Se esperaba ">> \o Join(token_types)
                          \o <<", se encontró ", "FIN">>))

\* Parser.eat
eat(p, token_types) ==
    LET tok == current(p) IN
    IF tok # None /\ InTuple(tok[1].type, token_types)
    THEN Ok([p EXCEPT !.pos = p.pos + 1], Zero)
    ELSE LET expected == Join(token_types)
             got == IF tok # None THEN tok[1].type ELSE "FIN"
         IN  Fail(p, ParserError(<<"Se esperaba ">> \o expected
                                 \o <<", se encontró ", got>>))

\* The three nested defs and their two while loops, as one recursive
\* operator indexed by the rule being run; `value` is the accumulator of a
\* loop and unused elsewhere.
RECURSIVE descent(_, _, _)
descent(rule, p, value) ==
    LET tok == current(p) IN
    CASE rule = "factor" ->
        \* F -> NUMBER | '(' E ')'
        IF tok = None THEN Fail(p, Exception("AttributeError"))   \* None.type
        ELSE IF tok[1].type = "NUMBER" THEN
            LET e == eat(p, <<"NUMBER">>) IN
            IF e.ok THEN Ok(e.parser, float(tok[1].value)) ELSE e
        ELSE IF tok[1].type = "LPAREN" THEN
            LET e1 == eat(p, <<"LPAREN">>) IN
            IF ~e1.ok THEN e1 ELSE
            LET v == descent("expr", e1.parser, Zero) IN
            IF ~v.ok THEN v ELSE
            LET e2 == eat(v.parser, <<"RPAREN">>) IN
            IF ~e2.ok THEN e2 ELSE Ok(e2.parser, v.value)
        ELSE Fail(p, ParserError(MsgNumeroOParen))
      [] rule = "term" ->
        \* T -> F ((*|/) F)*
        LET f == descent("factor", p, Zero) IN
        IF ~f.ok THEN f ELSE descent("term while", f.parser, f.value)
      [] rule = "term while" ->
        IF tok # None /\ tok[1].type \in {"MUL", "DIV"} THEN
            LET op == tok[1].type
                e == eat(p, <<op>>)
            IN  IF ~e.ok THEN e ELSE
                LET right == descent("factor", e.parser, Zero) IN
                IF ~right.ok THEN right
                ELSE IF op = "MUL"
                THEN descent("term while", right.parser, Mul(value, right.value))
                ELSE IF right.value = Zero
                THEN Fail(right.parser, ParserError(MsgDivisionCero))
                ELSE descent("term while", right.parser, Div(value, right.value))
        ELSE Ok(p, value)
      [] rule = "expr" ->
        \* E -> T ((+|-) T)*
        LET t == descent("term", p, Zero) IN
        IF ~t.ok THEN t ELSE descent("expr while", t.parser, t.value)
      [] rule = "expr while" ->
        IF tok # None /\ tok[1].type \in {"PLUS", "MINUS"} THEN
            LET op == tok[1].type
                e == eat(p, <<op>>)
            IN  IF ~e.ok THEN e ELSE
                LET right == descent("term", e.parser, Zero) IN
                IF ~right.ok THEN right
                ELSE IF op = "PLUS"
                THEN descent("expr while", right.parser, Add(value, right.value))
                ELSE descent("expr while", right.parser, Sub(value, right.value))
        ELSE Ok(p, value)

\* The nested defs by name.
expr(p) == descent("expr", p, Zero)
term(p) == descent("term", p, Zero)
factor(p) == descent("factor", p, Zero)

\* self.expr() as Python resolves it: the attribute lookup comes first.
call_expr(p) ==
    IF "expr" \in ParserMethods THEN expr(p)
    ELSE Fail(p, Exception("AttributeError"))

\* The rest of parse once self.expr() has returned or raised.
parse_after_expr(e) ==
    IF ~e.ok THEN e
    ELSE IF current(e.parser) # None
    THEN Fail(e.parser, ParserError(MsgTokensExtra))
    ELSE IF e.parser.tokens # <<>>
            /\ e.parser.tokens[Len(e.parser.tokens)].type \in BinaryOperators
    THEN Fail(e.parser, ParserError(MsgTerminaOperador))
    ELSE Ok(e.parser, Zero)

\* Parser.parse
parse(p) ==
    IF p.tokens = <<>> THEN Fail(p, ParserError(MsgVacia))
    ELSE IF p.tokens[1].type \in BinaryOperators
    THEN Fail(p, ParserError(MsgIniciaOperador))
    ELSE parse_after_expr(call_expr(p))

----------------------------------------------------------------------------
(* The facade *)

\* validate_expression, the try block: r is what parser.parse() did.
validate_try(r) ==
    IF r.ok THEN Returned2(TRUE, None)
    ELSE IF r.exc = "ParserError" THEN Returned2(FALSE, r.message)
    ELSE Raised(r.exc)

\* validate_expression from the tokenize call on: tokenize is inside the try.
validate_tokens(tokens) ==
    IF ~tokens.ok THEN Returned2(FALSE, tokens.message)
    ELSE validate_try(parse(Parser(tokens.tokens)))

validate_expression(text) ==
    IF strip(text) = <<>> THEN Returned2(FALSE, MsgVacia)
    ELSE validate_tokens(tokenize(strip(text)))

\* evaluate_expression, the try block: r is what parser.expr() did.
evaluate_try(r) ==
    IF r.ok THEN Returned3(TRUE, None, <<r.value>>)
    ELSE IF r.exc = "ParserError" THEN Returned3(FALSE, r.message, None)
    ELSE Raised(r.exc)

\* evaluate_expression after a successful validation: tokenize is called
\* outside the try.
evaluate_tokens(tokens) ==
    IF ~tokens.ok THEN Raised(tokens.exc)
    ELSE evaluate_try(call_expr(Parser(tokens.tokens)))

\* evaluate_expression given what validate_expression(text) did.
evaluate_validated(v, text) ==
    IF v.kind = "raise" THEN v
    ELSE IF ~v.valid THEN Returned3(FALSE, v.message, None)
    ELSE evaluate_tokens(tokenize(text))

evaluate_expression(text) == evaluate_validated(validate_expression(text), text)

----------------------------------------------------------------------------
(* The history lists and the batch helper *)

\* What a def without a return statement hands back.
ReturnedNone ==
    [kind |-> "return", arity |-> 0, valid |-> FALSE, message |-> None,
     value |-> None, exc |-> "-"]

\* The for loop of probar_lista_expresiones from element i on: each append
\* is made before the next call, so an exception leaving validate_expression
\* ends the loop with the earlier appends in place.
RECURSIVE probar_loop(_, _, _, _), probar_step(_, _, _, _, _)
probar_loop(expresiones, i, valid, invalid) ==
    IF i > Len(expresiones)
    THEN [res |-> ReturnedNone, valid |-> valid, invalid |-> invalid]
    ELSE probar_step(expresiones, i, valid, invalid,
                     validate_expression(expresiones[i]))

\* The body of the loop given v, what validate_expression(expresiones[i]) did.
probar_step(expresiones, i, valid, invalid, v) ==
    IF v.kind = "raise"
    THEN [res |-> v, valid |-> valid, invalid |-> invalid]
    ELSE IF v.valid
    THEN probar_loop(expresiones, i + 1, Append(valid, expresiones[i]), invalid)
    ELSE probar_loop(expresiones, i + 1, valid,
                     Append(invalid, <<expresiones[i], v.message>>))

probar_lista_expresiones(expresiones, valid, invalid) ==
    probar_loop(expresiones, 1, valid, invalid)

----------------------------------------------------------------------------
(* Texts *)

T_42 == <<"4", "2">>
T_L1Plus2RMul3 == <<"(", "1", "+", "2", ")", "*", "3">>
T_12_Plus_L34_Minus_5RDiv6 ==
    <<"1", "2", " ", "+", " ", "(", "3", "4", " ", "-", " ", "5", ")", "/", "6">>
T_1Plus2Mul3 == <<"1", "+", "2", "*", "3">>
T_LL1Plus2RMul3RDiv4 == <<"(", "(", "1", "+", "2", ")", "*", "3", ")", "/", "4">>
T_007_Plus_1 == <<"0", "0", "7", " ", "+", " ", "1">>
T_Plus12 == <<"+", "1", "2">>
T_1_2 == <<"1", " ", "2">>
T_L1Plus2 == <<"(", "1", "+", "2">>
T_2MulR3 == <<"2", "*", ")", "3">>
T_1PlusPlus2 == <<"1", "+", "+", "2">>
T_1MulMul2 == <<"1", "*", "*", "2">>
T_1Plus == <<"1", "+">>
T_L_R == <<"(", " ", ")">>
T_Empty == <<>>
T_12Minus5Minus3 == <<"1", "2", "-", "5", "-", "3">>
T_1DivL2Minus2R == <<"1", "/", "(", "2", "-", "2", ")">>
T_1Div2 == <<"1", "/", "2">>

\* The lists of app.py's "Correr casos de prueba".
validas == <<T_42, T_L1Plus2RMul3, T_12_Plus_L34_Minus_5RDiv6, T_1Plus2Mul3,
             T_LL1Plus2RMul3RDiv4>>
invalidas == <<T_Plus12, T_1_2, T_L1Plus2, T_2MulR3, T_1PlusPlus2, T_1MulMul2,
               T_1Plus, T_L_R, T_Empty>>

Range(seq) == {seq[i] : i \in 1..Len(seq)}

Corpus ==
    Range(validas) \cup Range(invalidas)
        \cup {T_007_Plus_1, T_12Minus5Minus3, T_1DivL2Minus2R, T_1Div2}

\* Every text over Alphabet of at most MaxLen characters, and the corpus.
Inputs == UNION {[1..n -> Alphabet] : n \in 0..MaxLen} \cup Corpus

\* The texts a batch is drawn from: some of each list of the suggested cases.
BatchTexts == {T_42, T_1Plus2Mul3, T_Plus12, T_L1Plus2, T_1Plus, T_Empty}
Batches == UNION {[1..n -> BatchTexts] : n \in 0..MaxBatch}

\* The tuples of token kinds eat is called with, and a two-kind tuple.
TokenTypeTuples ==
    {<<"NUMBER">>, <<"LPAREN">>, <<"RPAREN">>, <<"PLUS">>, <<"MINUS">>,
     <<"MUL">>, <<"DIV">>, <<"PLUS", "MINUS">>}

----------------------------------------------------------------------------
(* State machine *)

Call(op, types, batch, valid, invalid) ==
    [op |-> op, types |-> types, batch |-> batch,
     before |-> [valid |-> valid, invalid |-> invalid]]
NoCall == Call("none", <<>>, <<>>, <<>>, <<>>)

NoParser == [live |-> FALSE, tokens |-> <<>>, pos |-> 0]
Live(p) == [live |-> TRUE, tokens |-> p.tokens, pos |-> p.pos]
Obj(p) == [tokens |-> p.tokens, pos |-> p.pos]

\* An exception leaving a call, with its message when it is a ParserError.
RaisedError(r) ==
    [kind |-> "raise", arity |-> 0, valid |-> FALSE, message |-> r.message,
     value |-> None, exc |-> r.exc]

Init ==
    /\ input \in Inputs
    /\ call = NoCall
    /\ res = NoResult
    /\ parser = NoParser
    /\ VALID_EXPRESSIONS = <<>>
    /\ INVALID_EXPRESSIONS = <<>>

\* validate_expression(input)
Validate ==
    /\ call' = Call("validate", <<>>, <<>>, <<>>, <<>>)
    /\ res' = validate_expression(input)
    /\ UNCHANGED <<input, parser, VALID_EXPRESSIONS, INVALID_EXPRESSIONS>>

\* evaluate_expression(input)
Evaluate ==
    /\ call' = Call("evaluate", <<>>, <<>>, <<>>, <<>>)
    /\ res' = evaluate_expression(input)
    /\ UNCHANGED <<input, parser, VALID_EXPRESSIONS, INVALID_EXPRESSIONS>>

Next == Validate \/ Evaluate

Spec == Init /\ [][Next]_vars

\* parser = Parser(tokenize(input))
NewParser ==
    /\ tokenize(input).ok
    /\ parser' = Live(Parser(tokenize(input).tokens))
    /\ call' = Call("Parser", <<>>, <<>>, <<>>, <<>>)
    /\ res' = ReturnedNone
    /\ UNCHANGED <<input, VALID_EXPRESSIONS, INVALID_EXPRESSIONS>>

\* parser.eat(token_types)
Eat(token_types) ==
    /\ parser.live
    /\ \E e \in {eat(Obj(parser), token_types)} :
        /\ parser' = Live(e.parser)
        /\ res' = IF e.ok THEN ReturnedNone ELSE RaisedError(e)
    /\ call' = Call("eat", token_types, <<>>, <<>>, <<>>)
    /\ UNCHANGED <<input, VALID_EXPRESSIONS, INVALID_EXPRESSIONS>>

\* parser.parse()
Parse ==
    /\ parser.live
    /\ \E r \in {parse(Obj(parser))} :
        /\ parser' = Live(r.parser)
        /\ res' = IF r.ok THEN ReturnedNone ELSE RaisedError(r)
    /\ call' = Call("parse", <<>>, <<>>, <<>>, <<>>)
    /\ UNCHANGED <<input, VALID_EXPRESSIONS, INVALID_EXPRESSIONS>>

NextParser == NewParser \/ (\E token_types \in TokenTypeTuples : Eat(token_types)) \/ Parse

SpecParser == Init /\ [][NextParser]_vars

InitBatch ==
    /\ input \in BatchTexts
    /\ call = NoCall
    /\ res = NoResult
    /\ parser = NoParser
    /\ VALID_EXPRESSIONS = <<>>
    /\ INVALID_EXPRESSIONS = <<>>

\* probar_lista_expresiones(expresiones)
ProbarLista(expresiones) ==
    /\ \E r \in {probar_lista_expresiones(expresiones, VALID_EXPRESSIONS,
                                          INVALID_EXPRESSIONS)} :
        /\ Len(r.valid) + Len(r.invalid) <= MaxHist
        /\ VALID_EXPRESSIONS' = r.valid
        /\ INVALID_EXPRESSIONS' = r.invalid
        /\ res' = r.res
    /\ call' = Call("probar_lista_expresiones", <<>>, expresiones,
                    VALID_EXPRESSIONS, INVALID_EXPRESSIONS)
    /\ UNCHANGED <<input, parser>>

\* app.py, button "Validar expresión": the call's result is unpacked into
\* three names before anything is appended.
ValidarExpresion ==
    /\ \E v \in {validate_expression(input)} :
        /\ res' = IF v.kind = "raise" THEN v
                  ELSE IF v.arity # 3 THEN Raised("ValueError")
                  ELSE ReturnedNone
        /\ VALID_EXPRESSIONS' =
               IF v.kind = "return" /\ v.arity = 3 /\ v.valid
               THEN Append(VALID_EXPRESSIONS, input) ELSE VALID_EXPRESSIONS
        /\ INVALID_EXPRESSIONS' =
               IF v.kind = "return" /\ v.arity = 3 /\ ~v.valid
               THEN Append(INVALID_EXPRESSIONS, <<input, v.message>>)
               ELSE INVALID_EXPRESSIONS
    /\ call' = Call("Validar expresion", <<>>, <<>>, VALID_EXPRESSIONS,
                    INVALID_EXPRESSIONS)
    /\ UNCHANGED <<input, parser>>

\* app.py, button "Correr casos de prueba"
CorrerCasosDePrueba ==
    /\ \E r \in {probar_lista_expresiones(validas \o invalidas, VALID_EXPRESSIONS,
                                          INVALID_EXPRESSIONS)} :
        /\ Len(r.valid) + Len(r.invalid) <= MaxHist
        /\ VALID_EXPRESSIONS' = r.valid
        /\ INVALID_EXPRESSIONS' = r.invalid
        /\ res' = r.res
    /\ call' = Call("Correr casos de prueba", <<>>, validas \o invalidas,
                    VALID_EXPRESSIONS, INVALID_EXPRESSIONS)
    /\ UNCHANGED <<input, parser>>

\* app.py, button "Limpiar historial"
LimpiarHistorial ==
    /\ VALID_EXPRESSIONS' = <<>>
    /\ INVALID_EXPRESSIONS' = <<>>
    /\ res' = ReturnedNone
    /\ call' = Call("Limpiar historial", <<>>, <<>>, VALID_EXPRESSIONS,
                    INVALID_EXPRESSIONS)
    /\ UNCHANGED <<input, parser>>

NextBatch ==
    \/ \E expresiones \in Batches : ProbarLista(expresiones)
    \/ ValidarExpresion
    \/ CorrerCasosDePrueba
    \/ LimpiarHistorial

SpecBatch == InitBatch /\ [][NextBatch]_vars

----------------------------------------------------------------------------
(* Reference notions the properties are stated with *)

\* The grammar of the module docstring, E -> T ((+|-) T)*, T -> F ((*|/) F)*,
\* F -> N | '(' E ')', N -> digit+, as the descent recognises it: a text is
\* derivable when its tokens are consumed to the last one without an error
\* (a division by a zero-valued divisor is an error).
DescentOf(text) == expr(Parser(tokenize(text).tokens))
Consumed(r) == r.ok /\ current(r.parser) = None
Derivable(text) == tokenize(text).ok /\ Consumed(DescentOf(text))
ValueOf(text) == DescentOf(text).value

\* The token kinds of a text over the allowed characters, balance aside.
KindsOf(text) ==
    [i \in 1..Len(ScanTokens(strip(text), 1, <<>>).tokens) |->
        ScanTokens(strip(text), 1, <<>>).tokens[i].type]
Lexical(text) == FirstDisallowed(strip(text)) = None
FirstIsOperator(kinds) == kinds # <<>> /\ kinds[1] \in BinaryOperators
LastIsOperator(kinds) == kinds # <<>> /\ kinds[Len(kinds)] \in BinaryOperators

InsertAt(s, j, ch) == SubSeq(s, 1, j) \o <<ch>> \o SubSeq(s, j + 1, Len(s))
RemoveAt(s, i) == SubSeq(s, 1, i - 1) \o SubSeq(s, i + 1, Len(s))

RECURSIVE Wrap(_, _)
Wrap(s, n) == IF n = 0 THEN s ELSE <<"(">> \o Wrap(s, n - 1) \o <<")">>

\* j is a place between two digits of one numeral
InsideNumeral(s, j) == j >= 1 /\ j < Len(s) /\ isdigit(s[j]) /\ isdigit(s[j + 1])

Count(s, ch) == Cardinality({i \in 1..Len(s) : s[i] = ch})

\* Where in a text each kind of error sits (0: the text has none of that kind).
DisallowedAt(s) ==
    IF \E i \in 1..Len(s) : s[i] \notin allowed_chars
    THEN CHOOSE i \in 1..Len(s) :
            /\ s[i] \notin allowed_chars
            /\ \A k \in 1..(i - 1) : s[k] \in allowed_chars
    ELSE 0

RECURSIVE CloseScan(_, _, _)
CloseScan(s, i, depth) ==
    IF i > Len(s) THEN 0
    ELSE IF s[i] = "(" THEN CloseScan(s, i + 1, depth + 1)
    ELSE IF s[i] = ")" THEN
        IF depth = 0 THEN i ELSE CloseScan(s, i + 1, depth - 1)
    ELSE CloseScan(s, i + 1, depth)

UnmatchedCloseAt(s) == CloseScan(s, 1, 0)
MissingClose(s) == Count(s, "(") > Count(s, ")")
LeadingOperator(s) == s # <<>> /\ s[1] \in Operators

ErrorLocations(s) ==
    ({DisallowedAt(s), UnmatchedCloseAt(s)} \ {0})
        \cup (IF LeadingOperator(s) THEN {1} ELSE {})
        \cup (IF MissingClose(s) THEN {Len(s) + 1} ELSE {})

ReportedLocation(message, s) ==
    IF message = MsgCierreSinApertura THEN UnmatchedCloseAt(s)
    ELSE IF message = MsgFaltaCierre THEN Len(s) + 1
    ELSE IF message = MsgIniciaOperador THEN 1
    ELSE DisallowedAt(s)

\* mask picks the elements of seq whose index it maps to `keep`
RECURSIVE Pick(_, _, _)
Pick(seq, mask, keep) ==
    IF seq = <<>> THEN <<>>
    ELSE LET rest == Pick(Tail(seq), [i \in 1..(Len(seq) - 1) |-> mask[i + 1]], keep)
         IN  IF mask[1] = keep THEN <<Head(seq)>> \o rest ELSE rest

Suffix(seq, from) == SubSeq(seq, from + 1, Len(seq))

----------------------------------------------------------------------------
(* Properties *)

\* C1: validate_expression and evaluate_expression always return a flattened
\* result: no error of any kind raised while lexing or parsing leaves the
\* call, and an invalid input yields false with one message and no value.
C1_FlattenedResult ==
    call.op \in {"validate", "evaluate"} =>
        /\ res.kind = "return"
        /\ ~res.valid => (res.message # None /\ res.value = None)

\* C2: over the allowed characters validate_expression returns (True, None)
\* exactly for the texts derivable from E, and (False, message) for the
\* others; digits-only texts and the list validas are accepted, the list
\* invalidas is rejected.
C2_AcceptsExactlyTheGrammar ==
    (call.op = "validate" /\ Lexical(input)) =>
        /\ IF Derivable(input)
           THEN res = Returned2(TRUE, None)
           ELSE res.kind = "return" /\ ~res.valid /\ res.message # None
        /\ (input # <<>> /\ \A i \in 1..Len(input) : isdigit(input[i]))
               => res = Returned2(TRUE, None)
        /\ input \in Range(validas) \cup {T_007_Plus_1}
               => res = Returned2(TRUE, None)
        /\ input \in Range(invalidas) => (res.kind = "return" /\ ~res.valid)

\* C3: a lexically sound, balanced expression whose first token is an
\* operator is rejected with "no puede iniciar con un operador", and one
\* whose last token is an operator (and whose first is not) is rejected with
\* "no puede terminar con un operador".
C3_LeadingTrailingOperator ==
    (call.op = "validate" /\ tokenize(input).ok) =>
        /\ FirstIsOperator(KindsOf(input))
               => res = Returned2(FALSE, MsgIniciaOperador)
        /\ (LastIsOperator(KindsOf(input)) /\ ~FirstIsOperator(KindsOf(input)))
               => res = Returned2(FALSE, MsgTerminaOperador)

\* C4: for a valid expression e, e wrapped in n >= 1 pairs of parentheses is
\* valid; e with one closing parenthesis removed is rejected with "falta
\* cierre"; e with one closing parenthesis added is rejected with "cierre sin
\* apertura previa".
C4_ParenthesisWrapping ==
    (call.op = "validate" /\ Derivable(input)) =>
        /\ \A n \in 1..MaxWrap :
               validate_expression(Wrap(input, n)) = Returned2(TRUE, None)
        /\ \A i \in 1..Len(input) :
               input[i] = ")" =>
                   validate_expression(RemoveAt(input, i))
                       = Returned2(FALSE, MsgFaltaCierre)
        /\ \A j \in 0..Len(input) :
               validate_expression(InsertAt(input, j, ")"))
                   = Returned2(FALSE, MsgCierreSinApertura)

\* C5: for a valid expression evaluate_expression returns (True, None, v), v
\* the value with * and / binding tighter than + and - and equal precedence
\* applied left to right: 1+2*3 is 7, 12-5-3 is 4, (1+2)*3 is 9, 42 is 42.
C5_EvaluatesWithPrecedence ==
    call.op = "evaluate" =>
        /\ Derivable(input) => res = Returned3(TRUE, None, <<ValueOf(input)>>)
        /\ input = T_1Plus2Mul3 => res.value = <<Number(7, 1)>>
        /\ input = T_12Minus5Minus3 => res.value = <<Number(4, 1)>>
        /\ input = T_L1Plus2RMul3 => res.value = <<Number(9, 1)>>
        /\ input = T_42 => res.value = <<Number(42, 1)>>

\* C6: when the right-hand factor of a / evaluates to zero (a literal 0 or a
\* parenthesised subexpression), evaluate_expression returns
\* (False, "División entre 0 no permitida", None).
DividesByZero(text) ==
    /\ tokenize(text).ok
    /\ ~FirstIsOperator(KindsOf(text))
    /\ DescentOf(text).message = MsgDivisionCero

C6_DivisionByZero ==
    (call.op = "evaluate" /\ DividesByZero(input)) =>
        res = Returned3(FALSE, MsgDivisionCero, None)

\* C7: for a valid expression, a space inserted anywhere but inside a numeral
\* leaves the token sequence, the validity and the value unchanged.
C7_WhitespaceInsensitive ==
    (call.op = "evaluate" /\ Derivable(input)) =>
        \A j \in 0..Len(input) :
            ~InsideNumeral(input, j) =>
                /\ tokenize(InsertAt(input, j, Space)).tokens
                       = tokenize(input).tokens
                /\ validate_expression(InsertAt(input, j, Space))
                       = Returned2(TRUE, None)
                /\ evaluate_expression(InsertAt(input, j, Space))
                       = Returned3(TRUE, None, <<ValueOf(input)>>)
                /\ res = Returned3(TRUE, None, <<ValueOf(input)>>)

C9_BatchAppendsEveryText ==
    call.op \in {"probar_lista_expresiones", "Correr casos de prueba"} =>
        /\ res.kind = "return"
        /\ SubSeq(VALID_EXPRESSIONS, 1, Len(call.before.valid)) = call.before.valid
        /\ SubSeq(INVALID_EXPRESSIONS, 1, Len(call.before.invalid))
               = call.before.invalid
        /\ \E mask \in [1..Len(call.batch) -> BOOLEAN] :
               /\ Suffix(VALID_EXPRESSIONS, Len(call.before.valid))
                      = Pick(call.batch, mask, TRUE)
               /\ LET added == Suffix(INVALID_EXPRESSIONS, Len(call.before.invalid))
                  IN  /\ [i \in 1..Len(added) |-> added[i][1]]
                             = Pick(call.batch, mask, FALSE)
                      /\ \A i \in 1..Len(added) : added[i][2] # None

\* C10: the cursor stays within 0..len(tokens) and never decreases, only eat
\* changes it, the token list is never modified; eat(token_types) advances
\* the cursor by one when there is a current token whose type is in
\* token_types and otherwise raises ParserError naming the type found, or
\* FIN, with the cursor unchanged.
C10_CursorAndEat ==
    [][ /\ parser'.pos \in 0..Len(parser'.tokens)
        /\ (parser.live /\ call'.op # "Parser") =>
               /\ parser'.tokens = parser.tokens
               /\ parser'.pos >= parser.pos
        /\ (parser.live /\ call'.op \notin {"Parser", "eat"}) =>
               parser'.pos = parser.pos
        /\ call'.op = "eat" =>
               LET has == parser.pos < Len(parser.tokens)
                   found == IF has THEN parser.tokens[parser.pos + 1].type
                            ELSE "FIN"
               IN  IF has /\ found \in Range(call'.types)
                   THEN parser'.pos = parser.pos + 1 /\ res'.kind = "return"
                   ELSE /\ parser'.pos = parser.pos
                        /\ res'.kind = "raise"
                        /\ res'.exc = "ParserError"
                        /\ res'.message # None
                        /\ res'.message[Len(res'.message)] = found
      ]_vars

\* Every token of a parser has been eaten and one more eat has raised,
\* naming FIN.
C10_Witness ==
    /\ call.op = "eat"
    /\ parser.live
    /\ parser.pos = Len(parser.tokens)
    /\ parser.pos >= 2
    /\ res.kind = "raise"
    /\ res.message # None
    /\ res.message[Len(res.message)] = "FIN"

====
